---- MODULE Spec2Model ----
(***************************************************************************)
(* Model of the browser-side HTTP client layer:                            *)
(*   - frontend/lib/api-client.ts : ApiClient.request and its verbs        *)
(*   - the auth module            : signIn, signUp, signOut,               *)
(*                                  checkAuthState, getCurrentUser,        *)
(*                                  refreshToken                           *)
(* Both share one localStorage entry, "auth_token".                        *)
(*                                                                         *)
(* Strings that the code inspects character by character (the token) are   *)
(* sequences of symbols; "." is the separator symbol.  A JavaScript null   *)
(* or "" read from storage is the empty sequence: every read of the token  *)
(* in the code is followed by `if (!token)`, which treats both alike.      *)
(***************************************************************************)
EXTENDS Integers, Sequences, FiniteSets, TLC

VARIABLES
    window,     \* TRUE in a browser (typeof window !== "undefined")
    store,      \* localStorage["auth_token"]
    now,        \* Math.floor(Date.now() / 1000)
    req,        \* the calls of ApiClient.request in progress, by slot
    auth,       \* the calls of signIn/signUp/getCurrentUser/refreshToken, by slot
    session     \* the last call of checkAuthState: what it read and returned

vars == <<window, store, now, req, auth, session>>

-----------------------------------------------------------------------------
(* Bounds *)

MaxTime == 2        \* the clock runs from 1 to MaxTime

Reqs == {"r1", "r2"}    \* the calls of ApiClient.request that can be in progress together
Solo == {"r1"}          \* one call of ApiClient.request at a time
Auths == {"a1"}         \* the calls of the asynchronous auth functions in progress

-----------------------------------------------------------------------------
(* JavaScript values *)

Undefined == "undefined"
JsNull == "null"
NoToken == <<>>

\* `x || y` and `if (x)` on a string-or-undefined-or-null value
TruthyStr(s) == s \notin {Undefined, JsNull, ""}

\* numbers and the absence of a number, for payload.exp
Num(n) == [t |-> "number", n |-> n]
NoNum == [t |-> "undefined"]

\* `if (x)` on a number-or-undefined value: 0 is falsy
TruthyNum(v) == v.t = "number" /\ v.n # 0

-----------------------------------------------------------------------------
(* Errors thrown by the platform *)

AbortError == [cls |-> "DOMException", name |-> "AbortError"]   \* fetch aborted by its signal
FetchFailed == [cls |-> "TypeError", name |-> "TypeError"]      \* fetch: network failure
JsonSyntax == [cls |-> "SyntaxError", name |-> "SyntaxError"]   \* response.json(): bad body

-----------------------------------------------------------------------------
(* api-client.ts *)

Timeout == 10000

HeaderNames == {"Content-Type", "Authorization", "X-Trace"}
Absent == <<>>

\* { ...a, ...b }: the keys of b win
Spread(a, b) == [h \in HeaderNames |-> IF b[h] # Absent THEN b[h] ELSE a[h]]

NoHeaders == [h \in HeaderNames |-> Absent]

Bearer(token) == <<"Bearer">> \o token

DefaultHeaders(token) ==
    [h \in HeaderNames |->
        CASE h = "Content-Type" -> <<"application/json">>
          [] h = "Authorization" -> Bearer(token)
          [] OTHER -> Absent]

\* a composition in which the caller cannot touch Authorization
ComposeHeadersPinned(token, callerHeaders) ==
    [h \in HeaderNames |->
        IF h = "Authorization" THEN Bearer(token)
        ELSE Spread(DefaultHeaders(token), callerHeaders)[h]]

\* the headers object built at lines 59-63
ComposeHeaders(token, callerHeaders) == Spread(DefaultHeaders(token), callerHeaders)

ApiError(message, status, errorCode, canRetry) ==
    [kind |-> "ApiError", message |-> message, status |-> status,
     errorCode |-> errorCode, canRetry |-> canRetry]

Returned(value) == [kind |-> "ok", value |-> value]

Pending == [kind |-> "pending"]

NoTokenError == ApiError("No authentication token found", 401, "AUTH_001", FALSE)
UnauthorizedError == ApiError("Unauthorized access", 401, "AUTH_001", FALSE)

\* response.ok
Ok(status) == status >= 200 /\ status <= 299

\* errorData when response.json() fails: {}
EmptyData == [error_code |-> Undefined, errorCode |-> Undefined, message |-> Undefined]

\* the switch at lines 98-117
StatusMessage(status, errorData) ==
    CASE status = 400 -> "Invalid request"
      [] status = 403 -> "You don't have access to this resource"
      [] status = 404 -> "The requested item was not found"
      [] status = 422 -> "Please check your input"
      [] status = 500 -> "Something went wrong. Please try again."
      [] OTHER -> IF TruthyStr(errorData.message) THEN errorData.message ELSE "Request failed"

\* line 96
ErrorCodeOf(errorData) ==
    IF TruthyStr(errorData.error_code) THEN errorData.error_code
    ELSE IF TruthyStr(errorData.errorCode) THEN errorData.errorCode
    ELSE JsNull

\* every error status retryable
CanRetryAnyError(status) == status >= 400 \/ status = 0

\* line 124
CanRetry(status) == status >= 500 \/ status = 0

\* the ApiError thrown at lines 119-125
HttpError(status, errorData) ==
    ApiError(StatusMessage(status, errorData), status, ErrorCodeOf(errorData), CanRetry(status))

\* line 143
IsAbort(error) == error.cls = "TypeError" /\ error.name = "AbortError"

\* the catch block, lines 139-148, for an error that is not an ApiError
Translate(error) ==
    IF IsAbort(error)
    THEN ApiError("Request timeout", 0, JsNull, TRUE)
    ELSE ApiError("Network error. Check your connection.", 0, JsNull, TRUE)

\* clearTimeout(timeoutId) under `if (timeoutId)`
Disarm(timer) == IF timer = "armed" THEN "cleared" ELSE timer

\* localStorage.removeItem under `typeof window !== 'undefined'`
Removed(s) == IF window THEN NoToken ELSE s

IdleReq ==
    [pc |-> "idle", token |-> NoToken, options |-> NoHeaders, headers |-> NoHeaders,
     timer |-> "none", status |-> 0, result |-> Pending, removed |-> <<>>]


\* what the network can answer
Statuses == {200, 204, 400, 401, 403, 404, 418, 422, 500, 503}

\* response.json() of an error response: a rejection, or the parsed object
ErrorBodies ==
    { [parsed |-> FALSE, data |-> EmptyData],
      [parsed |-> TRUE, data |-> EmptyData],
      [parsed |-> TRUE,
       data |-> [error_code |-> "E_SNAKE", errorCode |-> "E_CAMEL", message |-> "server message"]],
      [parsed |-> TRUE,
       data |-> [error_code |-> Undefined, errorCode |-> "E_CAMEL", message |-> Undefined]] }

\* options.headers as callers may pass it
CallerHeaders ==
    { NoHeaders,
      [h \in HeaderNames |->
          CASE h = "Content-Type" -> <<"text/plain">>
            [] h = "X-Trace" -> <<"t1">>
            [] OTHER -> Absent],
      [h \in HeaderNames |->
          CASE h = "Authorization" -> <<"Basic", "caller">>
            [] OTHER -> Absent] }

\* ApiClient.request, lines 46-79: up to the call of fetch
Request(r, options) ==
    /\ req[r].pc = "idle"
    /\ LET token == IF window THEN store ELSE NoToken
           timeout == IF options.signal THEN 0 ELSE Timeout
       IN  IF token = NoToken
           THEN req' = [req EXCEPT ![r] = [@ EXCEPT !.pc = "done", !.result = NoTokenError]]
           ELSE req' = [req EXCEPT ![r] =
                          [@ EXCEPT !.pc = "fetch",
                                    !.token = token,
                                    !.options = options.headers,
                                    !.headers = ComposeHeaders(token, options.headers),
                                    !.timer = IF timeout # 0 THEN "armed" ELSE "none"]]
    /\ UNCHANGED <<window, store, now, auth, session>>

\* the RequestInit a verb builds: it never carries a signal; the method and the body go
\* to the network and are not looked at again
Options(method, headers) == [method |-> method, headers |-> headers, signal |-> FALSE]

Get(r) == \E h \in CallerHeaders : Request(r, Options("GET", h))
Post(r) == \E h \in CallerHeaders : Request(r, Options("POST", h))
Put(r) == \E h \in CallerHeaders : Request(r, Options("PUT", h))
Patch(r) == \E h \in CallerHeaders : Request(r, Options("PATCH", h))
Delete(r) == \E h \in CallerHeaders : Request(r, Options("DELETE", h))

\* the 401 branch without the removeItem
OnUnauthorizedKeepsToken(r) ==
    /\ store' = store
    /\ req' = [req EXCEPT ![r] =
                 [@ EXCEPT !.pc = "done", !.timer = Disarm(@), !.status = 401,
                           !.result = UnauthorizedError]]

\* the 401 branch removing the token only if it is still the one the request sent
OnUnauthorizedIfCurrent(r) ==
    /\ store' = IF store = req[r].token THEN Removed(store) ELSE store
    /\ req' = [req EXCEPT ![r] =
                 [@ EXCEPT !.pc = "done", !.timer = Disarm(@), !.status = 401,
                           !.result = UnauthorizedError,
                           !.removed = IF window /\ store = req[r].token
                                       THEN Append(@, store) ELSE @]]

\* lines 86-92: the 401 branch
OnUnauthorized(r) ==
    /\ store' = Removed(store)
    /\ req' = [req EXCEPT ![r] =
                 [@ EXCEPT !.pc = "done", !.timer = Disarm(@), !.status = 401,
                           !.result = UnauthorizedError,
                           !.removed = IF window THEN Append(@, store) ELSE @]]

\* lines 75-131: fetch resolves with a response of the given status
OnResponse(r, status) ==
    IF status = 401
    THEN OnUnauthorized(r)
    ELSE /\ store' = store
         /\ req' = [req EXCEPT ![r] =
                      IF ~Ok(status)
                      THEN [@ EXCEPT !.pc = "errorBody", !.timer = Disarm(@), !.status = status]
                      ELSE IF status = 204
                      THEN [@ EXCEPT !.pc = "done", !.timer = Disarm(@), !.status = status,
                                     !.result = Returned(Undefined)]
                      ELSE [@ EXCEPT !.pc = "body", !.timer = Disarm(@), !.status = status]]

FetchResolves(r) ==
    /\ req[r].pc = "fetch"
    /\ \E status \in Statuses : OnResponse(r, status)
    /\ UNCHANGED <<window, now, auth, session>>

\* lines 134-148: fetch rejects with a network failure
FetchRejects(r) ==
    /\ req[r].pc = "fetch"
    /\ req' = [req EXCEPT ![r] =
                 [@ EXCEPT !.pc = "done", !.timer = Disarm(@), !.result = Translate(FetchFailed)]]
    /\ UNCHANGED <<window, store, now, auth, session>>

\* line 71: the timer fires, controller.abort() makes fetch reject with an AbortError
TimerFires(r) ==
    /\ req[r].timer = "armed"
    /\ req' = [req EXCEPT ![r] =
                 [@ EXCEPT !.pc = "done", !.timer = "fired", !.result = Translate(AbortError)]]
    /\ UNCHANGED <<window, store, now, auth, session>>

\* lines 95-125: the body of an error response has been read (or has failed to parse)
ErrorBodyRead(r) ==
    /\ req[r].pc = "errorBody"
    /\ \E b \in ErrorBodies :
          req' = [req EXCEPT ![r] =
                    [@ EXCEPT !.pc = "done", !.result = HttpError(req[r].status, b.data)]]
    /\ UNCHANGED <<window, store, now, auth, session>>

\* line 133: the body of a 2xx response parses, or response.json() rejects
BodyRead(r) ==
    /\ req[r].pc = "body"
    /\ \E parsed \in BOOLEAN :
          req' = [req EXCEPT ![r] =
                    [@ EXCEPT !.pc = "done",
                              !.result = IF parsed THEN Returned("json")
                                         ELSE Translate(JsonSyntax)]]
    /\ UNCHANGED <<window, store, now, auth, session>>

-----------------------------------------------------------------------------
(* Tokens and their decoding, as checkAuthState does it *)

\* token.split(".")
RECURSIVE Split(_)
Split(str) ==
    IF \A i \in 1..Len(str) : str[i] # "."
    THEN <<str>>
    ELSE LET k == CHOOSE i \in 1..Len(str) : str[i] = "." /\ \A j \in 1..(i - 1) : str[j] # "."
         IN  <<SubSeq(str, 1, k - 1)>> \o Split(SubSeq(str, k + 1, Len(str)))

Thrown == [ok |-> FALSE]
Value(v) == [ok |-> TRUE, v |-> v]

\* atob: each symbol of a segment stands for a run of base64 text; "!!" is not base64
Atob(segment) ==
    IF segment = <<>> THEN Value("")
    ELSE IF Len(segment) = 1 /\ segment[1] \in {"eyNoExp", "eyNoEmail", "eyExp0", "eyExp1",
                                                  "eyExpNeg", "bnVsbA", "bm90anNvbg"}
    THEN Value(segment[1])
    ELSE Thrown

Claims(sub, email, exp) == [null |-> FALSE, sub |-> sub, email |-> email, exp |-> exp]

\* JSON.parse of the text atob returned
JsonParse(text) ==
    CASE text = "eyNoExp" -> Value(Claims("u1", "a@x", NoNum))
      [] text = "eyNoEmail" -> Value(Claims("u2", Undefined, Num(9)))
      [] text = "eyExp0" -> Value(Claims("u1", "a@x", Num(0)))
      [] text = "eyExp1" -> Value(Claims("u1", "a@x", Num(1)))
      [] text = "eyExpNeg" -> Value(Claims("u1", "a@x", Num(-1)))
      [] text = "bnVsbA" -> Value([null |-> TRUE])
      [] OTHER -> Thrown

Jwt(payload) == <<"h", ".", payload, ".", "s">>

TokNoExp == Jwt("eyNoExp")
TokNoEmail == Jwt("eyNoEmail")
TokExp0 == Jwt("eyExp0")
TokExp1 == Jwt("eyExp1")
TokExpNeg == Jwt("eyExpNeg")
TokNull == Jwt("bnVsbA")
TokNotJson == Jwt("bm90anNvbg")
TokNotBase64 == Jwt("!!")
TokEmptyPayload == <<"h", ".", ".", "s">>
TokOpaque == <<"opaque">>
TokTwoParts == <<"h", ".", "eyExp1">>
TokFourParts == <<"h", ".", "eyExp1", ".", "s", ".", "x">>

Tokens ==
    { TokNoExp, TokNoEmail, TokExp0, TokExp1, TokExpNeg, TokNull, TokNotJson, TokNotBase64,
      TokEmptyPayload, TokOpaque, TokTwoParts, TokFourParts }

\* the tokens the backend hands out in this model
IssuedTokens == { TokNoExp }

\* what an earlier visit can have left in storage, besides nothing
Persisted == { TokExp1, TokNotJson }

NoUser == [null |-> TRUE]
User(userId, email) == [null |-> FALSE, userId |-> userId, email |-> email]

Unauthenticated == [isAuthenticated |-> FALSE, user |-> NoUser]
Authenticated(userId, email) == [isAuthenticated |-> TRUE, user |-> User(userId, email)]

\* line 151
IsExpired(exp, currentTime) == TruthyNum(exp) /\ exp.n < currentTime

\* a decoding that also removes a token that has not three segments
DecodeStrict(token, currentTime) ==
    LET tokenParts == Split(token)
        text == IF Len(tokenParts) = 3 THEN Atob(tokenParts[2]) ELSE Thrown
        payload == IF text.ok THEN JsonParse(text.v) ELSE Thrown
    IN  IF ~payload.ok \/ payload.v.null
        THEN [ret |-> Unauthenticated, remove |-> TRUE]
        ELSE IF IsExpired(payload.v.exp, currentTime)
        THEN [ret |-> Unauthenticated, remove |-> TRUE]
        ELSE [ret |-> Authenticated(payload.v.sub,
                                    IF TruthyStr(payload.v.email) THEN payload.v.email ELSE ""),
              remove |-> FALSE]

\* lines 138-161: the outcome for a non-empty token: what is returned, and whether
\* removeAuthToken is called
Decode(token, currentTime) ==
    LET tokenParts == Split(token)
    IN  IF Len(tokenParts) # 3
        THEN [ret |-> Unauthenticated, remove |-> FALSE]
        ELSE LET text == Atob(tokenParts[2])
                 payload == IF text.ok THEN JsonParse(text.v) ELSE Thrown
             IN  IF ~payload.ok \/ payload.v.null
                 THEN [ret |-> Unauthenticated, remove |-> TRUE]      \* the catch block
                 ELSE IF IsExpired(payload.v.exp, currentTime)
                 THEN [ret |-> Unauthenticated, remove |-> TRUE]
                 ELSE [ret |-> Authenticated(payload.v.sub,
                                             IF TruthyStr(payload.v.email)
                                             THEN payload.v.email ELSE ""),
                       remove |-> FALSE]

NoSession == [called |-> FALSE, token |-> NoToken, at |-> 0, ret |-> Unauthenticated]

\* checkAuthState, lines 123-162
CheckAuthState ==
    /\ LET token == IF window THEN store ELSE NoToken
           out == IF token = NoToken
                  THEN [ret |-> Unauthenticated, remove |-> FALSE]
                  ELSE Decode(token, now)
       IN  /\ store' = IF out.remove THEN Removed(store) ELSE store
           /\ session' = [called |-> TRUE, token |-> token, at |-> now, ret |-> out.ret]
    /\ UNCHANGED <<window, now, req, auth>>

\* signOut, lines 118-120
SignOut ==
    /\ store' = Removed(store)
    /\ UNCHANGED <<window, now, req, auth, session>>

\* the clock advances
Tick ==
    /\ now < MaxTime
    /\ now' = now + 1
    /\ UNCHANGED <<window, store, req, auth, session>>

-----------------------------------------------------------------------------
(* The asynchronous auth functions.  Each awaits fetch and then response.json();  *)
(* nothing is read from or written to storage between the two, so one step takes *)
(* the function from the call of fetch to its return or throw.                    *)

\* localStorage.setItem under `typeof window !== "undefined"`
Stored(s, token) == IF window THEN token ELSE s

Failure == [failed |-> TRUE, status |-> 0, parsed |-> FALSE, access_token |-> NoToken,
            detail |-> Undefined]
Response(status, parsed, token, detail) ==
    [failed |-> FALSE, status |-> status, parsed |-> parsed, access_token |-> token,
     detail |-> detail]

\* what the network can do to a call of the auth functions
Replies ==
    {Failure}
    \cup {Response(200, TRUE, t, Undefined) : t \in IssuedTokens}
    \cup {Response(200, FALSE, NoToken, Undefined)}
    \cup {Response(st, p, NoToken, Undefined) : st \in {401, 500}, p \in BOOLEAN}
    \cup {Response(st, TRUE, NoToken, "Invalid credentials") : st \in {401, 500}}

Error(message) == [kind |-> "Error", message |-> message]
Signed(token) == [kind |-> "signed", token |-> token]
UserData == [kind |-> "user"]
Token(token) == [kind |-> "token", token |-> token]

IdleAuth == [op |-> "none", pc |-> "idle", token |-> NoToken, status |-> 0, result |-> Pending]

Calls(a, op, token) ==
    auth' = [auth EXCEPT ![a] = [@ EXCEPT !.op = op, !.pc = "fetch", !.token = token]]

Settles(a, reply, result) ==
    auth' = [auth EXCEPT ![a] =
               [@ EXCEPT !.pc = "done", !.status = reply.status, !.result = result]]

\* signIn and signUp, after fetch: lines 67-82 and 99-114
Authenticate(a, reply, fallback) ==
    IF reply.failed
    THEN Settles(a, reply, Error(FetchFailed.name)) /\ store' = store
    ELSE IF ~Ok(reply.status)
    THEN /\ Settles(a, reply, Error(IF TruthyStr(reply.detail) THEN reply.detail ELSE fallback))
         /\ store' = store
    ELSE IF ~reply.parsed
    THEN Settles(a, reply, Error(JsonSyntax.name)) /\ store' = store
    ELSE /\ store' = Stored(store, reply.access_token)
         /\ Settles(a, reply, Signed(reply.access_token))

\* signIn, lines 54-65
SignIn(a) ==
    /\ auth[a].pc = "idle"
    /\ Calls(a, "signIn", NoToken)
    /\ UNCHANGED <<window, store, now, req, session>>

SignInSettles(a) ==
    /\ auth[a].pc = "fetch" /\ auth[a].op = "signIn"
    /\ \E reply \in Replies : Authenticate(a, reply, "Sign in failed")
    /\ UNCHANGED <<window, now, req, session>>

\* signUp, lines 86-97
SignUp(a) ==
    /\ auth[a].pc = "idle"
    /\ Calls(a, "signUp", NoToken)
    /\ UNCHANGED <<window, store, now, req, session>>

SignUpSettles(a) ==
    /\ auth[a].pc = "fetch" /\ auth[a].op = "signUp"
    /\ \E reply \in Replies : Authenticate(a, reply, "Sign up failed")
    /\ UNCHANGED <<window, now, req, session>>

\* getCurrentUser, lines 165-178
GetCurrentUser(a) ==
    /\ auth[a].pc = "idle"
    /\ LET token == IF window THEN store ELSE NoToken
       IN  IF token = NoToken
           THEN auth' = [auth EXCEPT ![a] =
                           [@ EXCEPT !.op = "getCurrentUser", !.pc = "done",
                                     !.result = Error("No authentication token found")]]
           ELSE Calls(a, "getCurrentUser", token)
    /\ UNCHANGED <<window, store, now, req, session>>

\* getCurrentUser removing the token on a 401, as the pipeline does
CurrentUserClearing(a, reply) ==
    /\ store' = IF ~reply.failed /\ reply.status = 401 THEN Removed(store) ELSE store
    /\ IF reply.failed
       THEN Settles(a, reply, Error(FetchFailed.name))
       ELSE IF ~Ok(reply.status)
       THEN Settles(a, reply, Error("Failed to fetch user data"))
       ELSE IF ~reply.parsed
       THEN Settles(a, reply, Error(JsonSyntax.name))
       ELSE Settles(a, reply, UserData)

\* getCurrentUser after fetch, lines 180-188
CurrentUser(a, reply) ==
    /\ store' = store
    /\ IF reply.failed
       THEN Settles(a, reply, Error(FetchFailed.name))
       ELSE IF ~Ok(reply.status)
       THEN Settles(a, reply, Error("Failed to fetch user data"))
       ELSE IF ~reply.parsed
       THEN Settles(a, reply, Error(JsonSyntax.name))
       ELSE Settles(a, reply, UserData)

GetCurrentUserSettles(a) ==
    /\ auth[a].pc = "fetch" /\ auth[a].op = "getCurrentUser"
    /\ \E reply \in Replies : CurrentUser(a, reply)
    /\ UNCHANGED <<window, now, req, session>>

\* refreshToken, lines 192-205
RefreshToken(a) ==
    /\ auth[a].pc = "idle"
    /\ LET token == IF window THEN store ELSE NoToken
       IN  IF token = NoToken
           THEN auth' = [auth EXCEPT ![a] =
                           [@ EXCEPT !.op = "refreshToken", !.pc = "done",
                                     !.result = Token(NoToken)]]
           ELSE Calls(a, "refreshToken", token)
    /\ UNCHANGED <<window, store, now, req, session>>

\* refreshToken keeping the stored token when the refresh fails
RefreshKeeping(a, reply) ==
    IF reply.failed \/ ~Ok(reply.status) \/ ~reply.parsed
    THEN /\ store' = store
         /\ Settles(a, reply, Token(NoToken))
    ELSE /\ store' = Stored(store, reply.access_token)
         /\ Settles(a, reply, Token(reply.access_token))

\* refreshToken after fetch, lines 207-221
Refresh(a, reply) ==
    IF reply.failed \/ ~Ok(reply.status) \/ ~reply.parsed
    THEN /\ store' = Removed(store)
         /\ Settles(a, reply, Token(NoToken))
    ELSE /\ store' = Stored(store, reply.access_token)
         /\ Settles(a, reply, Token(reply.access_token))

RefreshTokenSettles(a) ==
    /\ auth[a].pc = "fetch" /\ auth[a].op = "refreshToken"
    /\ \E reply \in Replies : Refresh(a, reply)
    /\ UNCHANGED <<window, now, req, session>>

-----------------------------------------------------------------------------------------------------------------------------------------------------
(* The system *)

Init ==
    /\ window \in BOOLEAN
    /\ store \in (IF window THEN Persisted \cup {NoToken} ELSE {NoToken})
    /\ now = 1
    /\ req = [r \in Reqs |-> IdleReq]
    /\ auth = [a \in Auths |-> IdleAuth]
    /\ session = NoSession

\* a call of ApiClient.request through one of the verbs, and what follows it
Pipeline(r) ==
    \/ Get(r)
    \/ Post(r)
    \/ Put(r)
    \/ Patch(r)
    \/ Delete(r)
    \/ FetchResolves(r)
    \/ FetchRejects(r)
    \/ TimerFires(r)
    \/ ErrorBodyRead(r)
    \/ BodyRead(r)

\* every operation; one call of ApiClient.request at a time
Next ==
    \/ \E r \in Solo : Pipeline(r)
    \/ \E a \in Auths : SignIn(a)
    \/ \E a \in Auths : SignInSettles(a)
    \/ \E a \in Auths : SignUp(a)
    \/ \E a \in Auths : SignUpSettles(a)
    \/ \E a \in Auths : GetCurrentUser(a)
    \/ \E a \in Auths : GetCurrentUserSettles(a)
    \/ \E a \in Auths : RefreshToken(a)
    \/ \E a \in Auths : RefreshTokenSettles(a)
    \/ CheckAuthState
    \/ SignOut
    \/ Tick

Spec == Init /\ [][Next]_vars

\* the pipeline under concurrency: calls of ApiClient.request race with each other,
\* with signIn and with signOut
PipelineNext ==
    \/ \E r \in Reqs : Pipeline(r)
    \/ \E a \in Auths : SignIn(a)
    \/ \E a \in Auths : SignInSettles(a)
    \/ SignOut

PipelineSpec == Init /\ [][PipelineNext]_vars

\* one call of ApiClient.request; the event loop runs a timer that is due, the
\* network owes nothing
SoloNext == \E r \in Solo : Pipeline(r)

FairSpec == Init /\ [][SoloNext]_vars /\ \A r \in Solo : WF_vars(TimerFires(r))

\* checkAuthState over every shape of stored token
SessionInit ==
    /\ window \in BOOLEAN
    /\ store \in (IF window THEN Tokens \cup {NoToken} ELSE {NoToken})
    /\ now = 1
    /\ req = [r \in Reqs |-> IdleReq]
    /\ auth = [a \in Auths |-> IdleAuth]
    /\ session = NoSession

SessionNext ==
    \/ CheckAuthState
    \/ SignOut
    \/ Tick
    \/ \E a \in Auths : SignIn(a)
    \/ \E a \in Auths : SignInSettles(a)

SessionSpec == SessionInit /\ [][SessionNext]_vars

-----------------------------------------------------------------------------
(* Properties *)

IsApiError(result) == result.kind = "ApiError"

\* r received a response in this step
Receives(r, status) == req[r].pc = "fetch" /\ req'[r].pc # "fetch" /\ req'[r].status = status

\* C1: a request that was started with a token and receives HTTP 401 removes the token
\* from storage, once, and fails with ApiError{status 401, errorCode AUTH_001,
\* canRetry false}; a settled request does nothing more.
C1_UnauthorizedClearsOnce ==
    [][\A r \in Reqs :
          /\ Receives(r, 401) =>
                /\ req[r].token # NoToken
                /\ store' = NoToken
                /\ req'[r].removed = <<store>>
                /\ req'[r].pc = "done"
                /\ IsApiError(req'[r].result)
                /\ req'[r].result.status = 401
                /\ req'[r].result.errorCode = "AUTH_001"
                /\ req'[r].result.canRetry = FALSE
          /\ req[r].pc = "done" => req'[r] = req[r]]_vars

C1_Witness ==
    \E r \in Reqs :
        /\ req[r].pc = "done" /\ req[r].status = 401
        /\ req[r].token # NoToken
        /\ req[r].removed = <<req[r].token>>
        /\ store = NoToken
        /\ req[r].result = ApiError("Unauthorized access", 401, "AUTH_001", FALSE)

\* C2: a request cancelled by its own timer fails with ApiError{status 0, errorCode
\* null, canRetry true, message "Request timeout"}.
C2_TimeoutMessage ==
    \A r \in Reqs :
        req[r].timer = "fired" =>
            /\ req[r].pc = "done"
            /\ req[r].result = ApiError("Request timeout", 0, JsNull, TRUE)

\* C3: every call of ApiClient.request eventually returns or fails, whatever the
\* network does.
C3_Completes == \A r \in Solo : (req[r].pc # "idle") ~> (req[r].pc = "done")

\* C4: an ApiError of the pipeline has canRetry true exactly when its status is 0 or
\* at least 500; a 404 carries "The requested item was not found".
C4_CanRetry ==
    \A r \in Reqs :
        (req[r].pc = "done" /\ IsApiError(req[r].result)) =>
            /\ req[r].result.canRetry = (req[r].result.status = 0 \/ req[r].result.status >= 500)
            /\ req[r].result.status \in {0} \cup Statuses
            /\ req[r].result.status = 404 =>
                  req[r].result.message = "The requested item was not found"
            /\ req[r].token = NoToken => req[r].result = NoTokenError

C4_Witness ==
    \E r, q \in Reqs :
        /\ req[r].pc = "done" /\ IsApiError(req[r].result)
        /\ req[r].result.status = 404 /\ ~req[r].result.canRetry
        /\ req[r].result.message = "The requested item was not found"
        /\ req[q].pc = "done" /\ IsApiError(req[q].result)
        /\ req[q].result.status = 500 /\ req[q].result.canRetry

\* three segments, and a payload that decodes to a mapping whose exp is a number below t
HasExpiryBefore(token, t) ==
    /\ Len(Split(token)) = 3
    /\ Atob(Split(token)[2]).ok
    /\ JsonParse(Atob(Split(token)[2]).v).ok
    /\ ~JsonParse(Atob(Split(token)[2]).v).v.null
    /\ JsonParse(Atob(Split(token)[2]).v).v.exp.t = "number"
    /\ JsonParse(Atob(Split(token)[2]).v).v.exp.n < t

\* C5: checkAuthState on a stored token whose expiry is below the current time, 0
\* included, removes the token and returns unauthenticated with no user.
C5_ExpiredIsCleared ==
    [][(CheckAuthState /\ window /\ store # NoToken /\ HasExpiryBefore(store, now)) =>
          (store' = NoToken /\ session'.ret = Unauthenticated)]_vars

\* C6: the Authorization header sent is always the bearer header of the token read
\* from storage, whatever headers the caller passes.
C6_AuthorizationIsBearer ==
    \A r \in Reqs :
        req[r].token # NoToken => req[r].headers["Authorization"] = Bearer(req[r].token)

\* C6, amended: every header the caller passes replaces the default of that name,
\* Authorization included; the header sent is the bearer header of the token read from
\* storage exactly when the caller passes no Authorization header, and it is never absent.
C6_CallerHeadersWin ==
    \A r \in Reqs :
        req[r].token # NoToken =>
            /\ req[r].headers["Authorization"] # Absent
            /\ req[r].options["Authorization"] = Absent =>
                  req[r].headers["Authorization"] = Bearer(req[r].token)
            /\ \A h \in HeaderNames :
                  req[r].options[h] # Absent => req[r].headers[h] = req[r].options[h]
            /\ req[r].options["Content-Type"] = Absent =>
                  req[r].headers["Content-Type"] = <<"application/json">>

C6_Witness ==
    \E r \in Reqs :
        /\ req[r].pc = "fetch"
        /\ req[r].options["Authorization"] = <<"Basic", "caller">>
        /\ req[r].headers["Authorization"] = <<"Basic", "caller">>
        /\ req[r].headers["Authorization"] # Bearer(req[r].token)

\* a settles in this step
SettlesNow(a, op) == auth[a].pc = "fetch" /\ auth[a].op = op /\ auth'[a].pc = "done"

\* the store goes from absent to a credential only through a successful signIn, signUp
\* or refreshToken
CreatedOnlyBySignIn ==
    (store = NoToken /\ store' # NoToken) =>
        \E a \in Auths :
            /\ SettlesNow(a, "signIn") \/ SettlesNow(a, "signUp") \/ SettlesNow(a, "refreshToken")
            /\ Ok(auth'[a].status)
            /\ auth'[a].result.kind \in {"signed", "token"}
            /\ auth'[a].result.token = store'

\* C7: the store goes from absent to a credential only through a successful signIn,
\* signUp or refreshToken; a credential is destroyed on signOut, on detection of expiry
\* by checkAuthState, and whenever a pipeline request, getCurrentUser or refreshToken
\* receives HTTP 401, and by nothing else.
C7_Lifecycle ==
    [][/\ CreatedOnlyBySignIn
       /\ (store # NoToken /\ store' = NoToken) =>
             \/ SignOut
             \/ CheckAuthState /\ HasExpiryBefore(store, now)
             \/ \E r \in Reqs : Receives(r, 401)
             \/ \E a \in Auths :
                   /\ SettlesNow(a, "getCurrentUser") \/ SettlesNow(a, "refreshToken")
                   /\ auth'[a].status = 401
       /\ \A r \in Reqs : Receives(r, 401) => store' = NoToken
       /\ \A a \in Auths :
             ((SettlesNow(a, "getCurrentUser") \/ SettlesNow(a, "refreshToken"))
                 /\ auth'[a].status = 401) => store' = NoToken]_vars

\* three segments, and a payload that atob or JSON.parse rejects, or that is null
IsUndecodable(token) ==
    /\ Len(Split(token)) = 3
    /\ \/ ~Atob(Split(token)[2]).ok
       \/ ~JsonParse(Atob(Split(token)[2]).v).ok
       \/ JsonParse(Atob(Split(token)[2]).v).v.null

\* C7, amended: the store goes from absent to a credential only through a successful
\* signIn, signUp or refreshToken; a credential is destroyed only by signOut, by
\* checkAuthState on a payload that is expired or cannot be decoded, by a pipeline
\* request that receives 401, or by refreshToken on any response that is not 2xx and on
\* any thrown error; a pipeline request or a refreshToken that receives 401 always
\* destroys it, and getCurrentUser never changes the store, also on 401.
C7_LifecycleAsCoded ==
    [][/\ CreatedOnlyBySignIn
       /\ (store # NoToken /\ store' = NoToken) =>
             \/ SignOut
             \/ CheckAuthState /\ (HasExpiryBefore(store, now) \/ IsUndecodable(store))
             \/ \E r \in Reqs : Receives(r, 401)
             \/ \E a \in Auths :
                   /\ SettlesNow(a, "refreshToken")
                   /\ auth'[a].result = Token(NoToken)
       /\ \A r \in Reqs : Receives(r, 401) => store' = NoToken
       /\ \A a \in Auths :
             (SettlesNow(a, "refreshToken") /\ auth'[a].status = 401) => store' = NoToken
       /\ \A a \in Auths : SettlesNow(a, "getCurrentUser") => store' = store]_vars

C7_Witness ==
    \E a \in Auths :
        /\ auth[a].op = "getCurrentUser" /\ auth[a].pc = "done"
        /\ auth[a].status = 401
        /\ auth[a].result = Error("Failed to fetch user data")
        /\ store = auth[a].token
        /\ store # NoToken

\* C8: refreshToken never throws; with no stored token it returns null without a call
\* of fetch and without touching the store; on a response that is not 2xx and on any
\* thrown error it removes the token and returns null; only on a 2xx response does it
\* store the new token and return it.
C8_RefreshNeverThrows ==
    [][\A a \in Auths :
          /\ (auth[a].pc = "idle" /\ auth'[a].op = "refreshToken") =>
                /\ store' = store
                /\ IF store = NoToken
                   THEN auth'[a].pc = "done" /\ auth'[a].result = Token(NoToken)
                   ELSE auth'[a].pc = "fetch" /\ auth'[a].token = store
          /\ SettlesNow(a, "refreshToken") =>
                /\ auth'[a].result.kind = "token"
                /\ ~Ok(auth'[a].status) =>
                      (store' = NoToken /\ auth'[a].result = Token(NoToken))
                /\ auth'[a].result = Token(NoToken) => store' = NoToken
                /\ auth'[a].result # Token(NoToken) =>
                      (Ok(auth'[a].status) /\ store' = auth'[a].result.token)]_vars

C8_Witness ==
    \E a \in Auths :
        /\ auth[a].op = "refreshToken" /\ auth[a].pc = "done"
        /\ auth[a].token # NoToken
        /\ auth[a].status = 500
        /\ auth[a].result = Token(NoToken)
        /\ store = NoToken

\* C9: checkAuthState on a stored token that has not three segments returns
\* unauthenticated with no user and leaves the store as it is.
C9_MalformedIsKept ==
    [][(CheckAuthState /\ store # NoToken /\ Len(Split(store)) # 3) =>
          (store' = store /\ session'.ret = Unauthenticated)]_vars

C9_Witness ==
    /\ session.called
    /\ session.token # NoToken
    /\ Len(Split(session.token)) = 4
    /\ session.ret = Unauthenticated
    /\ store = session.token

\* C10: a request in flight keeps the token and headers it started with; a step of one
\* request changes no other request, and a change of the store that is not the request's
\* own 401 leaves the request as it is; a 401 removes whatever is stored at that moment,
\* also a token other than the one the request sent.
C10_Uncoordinated ==
    [][\A r \in Reqs :
          /\ req[r].pc \in {"fetch", "errorBody", "body"} =>
                (req'[r].token = req[r].token /\ req'[r].headers = req[r].headers)
          /\ req'[r] # req[r] => (\A q \in Reqs \ {r} : req'[q] = req[q]) /\ auth' = auth
          /\ (store' # store /\ ~Receives(r, 401)) => req'[r] = req[r]
          /\ Receives(r, 401) => (store' = NoToken /\ req'[r].removed = <<store>>)]_vars

C10_Witness ==
    \E r, q \in Reqs : \E a \in Auths :
        /\ r # q
        /\ req[r].pc = "done" /\ req[r].status = 401
        /\ auth[a].op = "signIn" /\ auth[a].pc = "done"
        /\ auth[a].result.kind = "signed"
        /\ req[r].removed = <<auth[a].result.token>>
        /\ req[r].token # auth[a].result.token
        /\ store = NoToken
        /\ req[q].pc = "fetch"
        /\ req[q].token = req[r].token

====
